---- MODULE Spec2Model ----
(***************************************************************************)
(* Orbit-file selection of sentineleof: the candidate filter, the          *)
(* de-duplication and freshness tie-break of eof/_select_orbit.py, the     *)
(* legacy selector of eof/scihubclient.py, the precise -> restituted       *)
(* fallback of the ASF and Scihub clients, the listing cache of            *)
(* ASFClient.get_full_eof_list, the downloader of ASFSession and the       *)
(* product-name parser of parsers.py.                                      *)
(*                                                                         *)
(* Time is counted in ticks of 1/7 second, so that the orbital period      *)
(* T_ORBIT = 12*86400/175 s = 41472/7 s is an integer number of ticks.     *)
(* Times parsed from orbit file names are whole seconds (multiples of 7);  *)
(* requested datetimes may be any tick.  A timedelta margin is <<>> for    *)
(* None (argument omitted) and <<n>> for a timedelta of n ticks.           *)
(***************************************************************************)
EXTENDS Integers, Sequences, FiniteSets, TLC

VARIABLES
    data,        \* catalog handed to the selector functions
    call,        \* last selector call: inputs, outcome and result
    eof_lists,   \* upstream listing per orbit type (ASFClient.eof_lists)
    requests,    \* batch of (dt, mission) handed to the client
    client,      \* which client variant runs the batch
    frames,      \* call stack of ASFClient.get_download_urls
    sh,          \* loop state of ScihubGnssClient.query_orbit_by_dt
    outcome,     \* "none", "running", "returned" or the exception raised
    urls_out,    \* list returned by the outermost get_download_urls
    consulted,   \* history: <<orbit type, request>> pairs looked up so far
    answers,     \* history: <<request, url>> for every resolved request
    passes,      \* history: orbit types of the calls/passes started
    unresolved,  \* requests left without an orbit when the last pass finished
    margins,     \* t0_margin, t1_margin handed to query_orbit_by_dt
    recall,      \* the same selector call made a second time
    memo,        \* ASFClient.eof_lists: listing memoized per orbit type
    disk,        \* cached listing file per cache directory and orbit type
    upstream,    \* listing the ASF server holds per orbit type
    lastget,     \* last get_full_eof_list call: inputs, state before, outcome
    save_dir,    \* names of the files in the download directory
    dl,          \* last _download_and_write call: url, requests made, outcome
    product,     \* last product name handed to the Sentinel parser
    rangeq,      \* last query_orbit_files_by_dt_range call
    job,         \* last download_eofs call
    dsquery      \* last orbit-file query built by the Dataspace client

vars == <<data, call, eof_lists, requests, client, frames, sh, outcome,
          urls_out, consulted, answers, passes, unresolved, margins,
          recall, memo, disk, upstream, lastget, save_dir, dl, product,
          rangeq, job, dsquery>>

selectVars == <<data, call, recall>>
cacheVars == <<memo, disk, upstream, lastget>>
downloadVars == <<save_dir, dl>>
queryVars == <<rangeq, job, dsquery>>
batchVars == <<eof_lists, requests, client, frames, sh, outcome, urls_out,
               consulted, answers, passes, unresolved, margins>>

----------------------------------------------------------------------------
(* Bounds *)

MaxCat == 3

MaxRecords == 3

MaxBatch == 2

----------------------------------------------------------------------------
(* Time and margins *)

TicksPerSecond == 7

Seconds(n) == n * TicksPerSecond

T_ORBIT == (12 * 86400 * TicksPerSecond) \div 175

DefaultMargin0 == T_ORBIT + Seconds(60)

DefaultMargin1 == Seconds(5 * 60)

LastvalCoverMargin == Seconds(5 * 60)

ClientT0 == T_ORBIT + Seconds(60)

ClientT1 == Seconds(60)

None == <<>>

TimeDelta(n) == <<n>>

\* Python truthiness of an optional timedelta: None and timedelta(0) are falsy
Truthy(m) == m # None /\ m[1] # 0

----------------------------------------------------------------------------
(* SentinelOrbit records *)

Rec(m, k, c, s, e) ==
    [mission |-> m, kind |-> k, created_time |-> c, start_time |-> s, stop_time |-> e]

\* the file name carries every field of the record
Filename(r) == <<r.mission, r.kind, r.created_time, r.start_time, r.stop_time>>

\* SentinelOrbit.__lt__ : order by validity window
OrbitLt(a, b) ==
    \/ a.start_time < b.start_time
    \/ a.start_time = b.start_time /\ a.stop_time < b.stop_time

\* SentinelOrbit.__eq__ : same validity window, created_time excluded
OrbitEq(a, b) == a.start_time = b.start_time /\ a.stop_time = b.stop_time

Range(s) == {s[i] : i \in 1..Len(s)}

\* sorted(): stable, uses only __lt__
RECURSIVE InsertSorted(_, _)
InsertSorted(x, s) ==
    IF s = <<>> THEN <<x>>
    ELSE IF OrbitLt(x, s[1]) THEN <<x>> \o s
    ELSE <<s[1]>> \o InsertSorted(x, Tail(s))

Sorted_InputOrder(s) == s

RECURSIVE Sorted(_)
Sorted(s) ==
    IF s = <<>> THEN <<>>
    ELSE InsertSorted(s[Len(s)], Sorted(SubSeq(s, 1, Len(s) - 1)))

\* list.sort(key=attrgetter("created_time"), reverse=True): stable, descending
RECURSIVE InsertByCreated(_, _)
InsertByCreated(x, s) ==
    IF s = <<>> THEN <<x>>
    ELSE IF x.created_time > s[1].created_time THEN <<x>> \o s
    ELSE <<s[1]>> \o InsertByCreated(x, Tail(s))

RECURSIVE SortByCreatedDesc(_)
SortByCreatedDesc(s) ==
    IF s = <<>> THEN <<>>
    ELSE InsertByCreated(s[Len(s)], SortByCreatedDesc(SubSeq(s, 1, Len(s) - 1)))

----------------------------------------------------------------------------
(* eof/_select_orbit.py *)

Ok(v) == [ok |-> TRUE, val |-> v]

ValidityError == [ok |-> FALSE, val |-> <<>>]

Covers_NoStopTest(item, t0, t1, margin0, margin1) ==
    item.start_time <= (t0 - margin0)

\* the filter condition of valid_orbits
Covers(item, t0, t1, margin0, margin1) ==
    /\ item.start_time <= (t0 - margin0)
    /\ item.stop_time >= (t1 + margin1)

RECURSIVE DedupLoop_KeepOlder(_, _, _, _)
DedupLoop_KeepOlder(candidates, i, last, result) ==
    IF i > Len(candidates)
    THEN IF last # <<>> THEN Append(result, last[1]) ELSE result
    ELSE LET candidate == candidates[i] IN
         IF last # <<>>
         THEN IF OrbitEq(candidate, last[1])
              THEN DedupLoop_KeepOlder(candidates, i + 1,
                             IF last[1].created_time < candidate.created_time
                             THEN last ELSE <<candidate>>,
                             result)
              ELSE DedupLoop_KeepOlder(candidates, i + 1, <<candidate>>,
                                       Append(result, last[1]))
         ELSE DedupLoop_KeepOlder(candidates, i + 1, <<candidate>>, result)

RECURSIVE DedupLoop_DropFinal(_, _, _, _)
DedupLoop_DropFinal(candidates, i, last, result) ==
    IF i > Len(candidates)
    THEN IF result = <<>> /\ last # <<>> THEN <<last[1]>> ELSE result
    ELSE LET candidate == candidates[i] IN
         IF last # <<>>
         THEN IF OrbitEq(candidate, last[1])
              THEN DedupLoop_DropFinal(candidates, i + 1,
                             IF last[1].created_time > candidate.created_time
                             THEN last ELSE <<candidate>>,
                             result)
              ELSE DedupLoop_DropFinal(candidates, i + 1, <<candidate>>,
                                       Append(result, last[1]))
         ELSE DedupLoop_DropFinal(candidates, i + 1, <<candidate>>, result)

\* the loop keeping, for each run of equal candidates, the last created one
RECURSIVE DedupLoop(_, _, _, _)
DedupLoop(candidates, i, last, result) ==
    IF i > Len(candidates)
    THEN IF last # <<>> THEN Append(result, last[1]) ELSE result
    ELSE LET candidate == candidates[i] IN
         IF last # <<>>
         THEN IF OrbitEq(candidate, last[1])
              THEN DedupLoop(candidates, i + 1,
                             IF last[1].created_time > candidate.created_time
                             THEN last ELSE <<candidate>>,
                             result)
              ELSE DedupLoop(candidates, i + 1, <<candidate>>, Append(result, last[1]))
         ELSE DedupLoop(candidates, i + 1, <<candidate>>, result)

valid_orbits(t0, t1, catalog, margin0, margin1) ==
    LET m0 == IF margin0 # None THEN margin0[1] ELSE DefaultMargin0
        m1 == IF margin1 # None THEN margin1[1] ELSE DefaultMargin1
        Keep(item) == Covers(item, t0, t1, m0, m1)
        candidates == Sorted(SelectSeq(catalog, Keep))
    IN  IF candidates = <<>> THEN ValidityError
        ELSE Ok(DedupLoop(candidates, 1, <<>>, <<>>))

last_valid_orbit(t0, t1, catalog, margin0, margin1) ==
    LET m0 == IF Truthy(margin0) THEN margin0 ELSE TimeDelta(DefaultMargin0)
        m1 == IF Truthy(margin1) THEN margin1 ELSE TimeDelta(DefaultMargin1)
        candidates == valid_orbits(t0, t1, catalog, m0, m1)
    IN  IF ~candidates.ok THEN ValidityError
        ELSE Ok(<<Filename(SortByCreatedDesc(candidates.val)[1])>>)

\* what last_valid_orbit leaves in the caller's list: valid_orbits builds a
\* new list with sorted([...]), and candidates.sort() sorts that new list
DataAfterLastValidOrbit_SortedInPlace(catalog) == SortByCreatedDesc(catalog)

DataAfterLastValidOrbit(catalog) == catalog

----------------------------------------------------------------------------
(* eof/scihubclient.py : lastval_cover *)

lastval_cover(t0, t1, catalog, margin) ==
    LET m == IF margin # None THEN margin[1] ELSE LastvalCoverMargin
        Keep(item) == item.start_time <= (t0 - m) /\ item.stop_time >= (t1 + m)
        candidates == SelectSeq(catalog, Keep)
    IN  IF candidates = <<>> THEN ValidityError
        ELSE Ok(<<Filename(SortByCreatedDesc(candidates)[1])>>)

----------------------------------------------------------------------------
(* Inputs of the selector specification *)

RECURSIVE SeqsUpTo(_, _)
SeqsUpTo(S, n) ==
    IF n = 0 THEN {<<>>}
    ELSE LET shorter == SeqsUpTo(S, n - 1) IN
         shorter \cup {Append(s, x) : s \in {t \in shorter : Len(t) = n - 1}, x \in S}

SelT0 == {Seconds(10000)}

SelT1 == {Seconds(10000), Seconds(10060)}

\* start times: covering under the default front margin, exactly 60 s before
\* the request, and exactly at the request
\* stop times: exactly 300 s after the later stop, exactly at the later stop
SelWindows ==
    { <<Seconds(4015), Seconds(10360)>>,
      <<Seconds(9940),  Seconds(10360)>>,
      <<Seconds(4015), Seconds(10060)>>,
      <<Seconds(10000), Seconds(10060)>> }

SelCreated == {1, 2, 3}

SelRecords ==
    { Rec("S1A", "precise", c, w[1], w[2]) : c \in SelCreated, w \in SelWindows }

SelMargins == {None, TimeDelta(0), TimeDelta(Seconds(60))}

NoCall == [fn |-> "none", t0 |-> 0, t1 |-> 0, margin0 |-> None, margin1 |-> None,
           ok |-> TRUE, val |-> <<>>]

Called(fn, t0, t1, m0, m1, res) ==
    [fn |-> fn, t0 |-> t0, t1 |-> t1, margin0 |-> m0, margin1 |-> m1,
     ok |-> res.ok, val |-> res.val]

OrbitTypes == {"precise", "restituted"}

CacheDirs == {"cacheA", "cacheB"}

NoGet == [outcome |-> "none", orbit_type |-> "precise", cache_dir |-> "cacheA",
          max_dt |-> None, memo_before |-> None, disk_before |-> None,
          fetched |-> FALSE, response |-> "none", result |-> None]

NoDownload == [outcome |-> "none", url |-> <<>>, gets |-> 0, before |-> {},
               fname |-> <<>>, prev_outcome |-> "none", prev_url |-> <<>>,
               prev_fname |-> <<>>]

NoProduct == [outcome |-> "none", name |-> <<>>, fields |-> <<>>,
              absolute_orbit |-> None, relative_orbit |-> None]

CacheIdle ==
    /\ memo = [ot \in OrbitTypes |-> None]
    /\ disk = [d \in CacheDirs |-> [ot \in OrbitTypes |-> None]]
    /\ upstream = [ot \in OrbitTypes |-> {}]
    /\ lastget = NoGet

DownloadIdle ==
    /\ save_dir = {}
    /\ dl = NoDownload

ParseIdle == product = NoProduct

NoRange == [outcome |-> "none", first_dt |-> 0, last_dt |-> 0, missions |-> <<>>,
            orbit_type |-> "precise", orbits |-> <<>>]

NoJob == [outcome |-> "none", orbit_dts |-> <<>>, missions |-> <<>>,
          listed |-> {}, started |-> 0, filenames |-> <<>>]

NoDsQuery == [outcome |-> "none", entry |-> "none", asserted |-> "none",
              orbit_dts |-> <<>>, missions |-> <<>>, orbit_type |-> "precise",
              t0_margin |-> 0, t1_margin |-> 0, first_dt |-> 0, last_dt |-> 0,
              served |-> <<>>, queries |-> <<>>, results |-> <<>>]

QueryIdle ==
    /\ rangeq = NoRange
    /\ job = NoJob
    /\ dsquery = NoDsQuery

BatchIdle ==
    /\ eof_lists = [precise |-> <<>>, restituted |-> <<>>]
    /\ requests = <<>>
    /\ client = "none"
    /\ frames = <<>>
    /\ sh = [i |-> 0, query |-> {}, remaining |-> <<>>]
    /\ outcome = "none"
    /\ urls_out = <<>>
    /\ consulted = {}
    /\ answers = {}
    /\ passes = <<>>
    /\ unresolved = <<>>
    /\ margins = [t0 |-> ClientT0, t1 |-> ClientT1]

InitSelect ==
    /\ data \in SeqsUpTo(SelRecords, MaxCat)
    /\ call = NoCall
    /\ recall = NoCall
    /\ BatchIdle
    /\ CacheIdle
    /\ DownloadIdle
    /\ ParseIdle
    /\ QueryIdle

CallValidOrbits ==
    /\ call.fn = "none"
    /\ \E t0 \in SelT0, t1 \in SelT1, m0 \in SelMargins, m1 \in SelMargins :
        /\ call' = Called("valid_orbits", t0, t1, m0, m1,
                          valid_orbits(t0, t1, data, m0, m1))
        /\ UNCHANGED <<data, recall, batchVars, cacheVars, queryVars, downloadVars,
                       product>>

CallLastValidOrbit ==
    /\ call.fn = "none"
    /\ \E t0 \in SelT0, t1 \in SelT1, m0 \in SelMargins, m1 \in SelMargins :
        /\ call' = Called("last_valid_orbit", t0, t1, m0, m1,
                          last_valid_orbit(t0, t1, data, m0, m1))
        /\ data' = DataAfterLastValidOrbit(data)
        /\ UNCHANGED <<recall, batchVars, cacheVars, queryVars, downloadVars, product>>

\* the caller repeats its last_valid_orbit call with the same arguments
CallLastValidOrbitAgain ==
    /\ call.fn = "last_valid_orbit"
    /\ recall.fn = "none"
    /\ recall' = Called("last_valid_orbit", call.t0, call.t1, call.margin0,
                        call.margin1,
                        last_valid_orbit(call.t0, call.t1, data, call.margin0,
                                         call.margin1))
    /\ data' = DataAfterLastValidOrbit(data)
    /\ UNCHANGED <<call, batchVars, cacheVars, queryVars, downloadVars, product>>

CallLastvalCover ==
    /\ call.fn = "none"
    /\ \E t0 \in SelT0, t1 \in SelT1, m \in SelMargins :
        /\ call' = Called("lastval_cover", t0, t1, m, m,
                          lastval_cover(t0, t1, data, m))
        /\ UNCHANGED <<data, recall, batchVars, cacheVars, queryVars, downloadVars,
                       product>>

NextSelect ==
    \/ CallValidOrbits
    \/ CallLastValidOrbit
    \/ CallLastValidOrbitAgain
    \/ CallLastvalCover

SpecSelect == InitSelect /\ [][NextSelect]_vars

----------------------------------------------------------------------------
(* eof/asf_client.py : ASFClient.query_orbit_by_dt / get_download_urls *)

Missions == {"S1A", "S1B"}

Urls(orbit_type) ==
    IF orbit_type = "precise" THEN "https://s1qc.asf.alaska.edu/aux_poeorb/"
    ELSE "https://s1qc.asf.alaska.edu/aux_resorb/"

Url_PreciseBase(orbit_type, filename) == <<Urls("precise"), filename>>

\* self.urls[orbit_type] + filename
Url(orbit_type, filename) == <<Urls(orbit_type), filename>>

MissionToEofList_AllMissions(eof_list, mission) == eof_list

\* mission_to_eof_list[mission]
MissionToEofList(eof_list, mission) ==
    LET OfMission(eof) == eof.mission = mission IN SelectSeq(eof_list, OfMission)

ASFMargin0_AlwaysT0(orbit_type) == ClientT0

ASFMargin0(orbit_type) ==
    IF orbit_type = "precise" THEN ClientT0 ELSE ClientT1

ShouldFallback_Always(orbit_type) == TRUE

\* the cascade goes on only from a precise call
ShouldFallback(orbit_type) == orbit_type = "precise"

RemainingReqs_All(frame) == frame.reqs

\* the (dt, mission) pairs handed to the recursive call
RemainingReqs(frame) == frame.remaining

NewFrame(orbit_type, reqs) ==
    [orbit_type |-> orbit_type, reqs |-> reqs, i |-> 1, urls |-> <<>>,
     remaining |-> <<>>, pc |-> "loop"]

Top == frames[Len(frames)]

SetTop(f) == [frames EXCEPT ![Len(frames)] = f]

\* query_orbit_by_dt forwards to get_download_urls(orbit_dts, missions, orbit_type)
ASFQueryOrbitByDt ==
    /\ client = "none"
    /\ \E orbit_type \in {"precise", "restituted"},
          t0_margin \in {ClientT0, Seconds(60)}, t1_margin \in {ClientT1} :
          /\ margins' = [t0 |-> t0_margin, t1 |-> t1_margin]
          /\ frames' = <<NewFrame(orbit_type, requests)>>
          /\ passes' = <<orbit_type>>
    /\ client' = "asf"
    /\ outcome' = "running"
    /\ UNCHANGED <<selectVars, cacheVars, queryVars, downloadVars, product,
                   eof_lists, requests, sh, urls_out, consulted,
                   answers, unresolved>>

\* one iteration of "for dt, mission in zip(orbit_dts, missions)"
ASFLookup ==
    /\ client = "asf" /\ frames # <<>>
    /\ Top.pc = "loop" /\ Top.i <= Len(Top.reqs)
    /\ Top.reqs[Top.i].mission \in Missions
    /\ LET f == Top
           q == f.reqs[f.i]
           res == last_valid_orbit(q.dt, q.dt,
                                   MissionToEofList(eof_lists[f.orbit_type], q.mission),
                                   TimeDelta(ASFMargin0(f.orbit_type)), None)
       IN  /\ consulted' = consulted \cup {<<f.orbit_type, q>>}
           /\ IF res.ok
              THEN /\ frames' = SetTop([f EXCEPT !.i = @ + 1,
                                   !.urls = Append(@, Url(f.orbit_type, res.val[1]))])
                   /\ answers' = answers \cup {<<q, Url(f.orbit_type, res.val[1])>>}
              ELSE /\ frames' = SetTop([f EXCEPT !.i = @ + 1,
                                   !.remaining = Append(@, q)])
                   /\ answers' = answers
    /\ UNCHANGED <<selectVars, cacheVars, queryVars, downloadVars, product,
                   eof_lists, requests, client, sh, outcome, urls_out,
                   passes, unresolved, margins>>

\* mission_to_eof_list[mission] for a mission that is not a key of the dict:
\* the KeyError is not caught and ends every running get_download_urls call
ASFLookupKeyError ==
    /\ client = "asf" /\ frames # <<>>
    /\ Top.pc = "loop" /\ Top.i <= Len(Top.reqs)
    /\ Top.reqs[Top.i].mission \notin Missions
    /\ frames' = <<>>
    /\ outcome' = "KeyError"
    /\ UNCHANGED <<selectVars, cacheVars, queryVars, downloadVars, product,
                   eof_lists, requests, client, sh, urls_out, consulted,
                   answers, passes, unresolved, margins>>

\* "if remaining_orbits: ... if orbit_type == OrbitType.precise:" the recursive call
ASFRecurse ==
    /\ client = "asf" /\ frames # <<>>
    /\ Top.pc = "loop" /\ Top.i > Len(Top.reqs)
    /\ Top.remaining # <<>> /\ ShouldFallback(Top.orbit_type)
    /\ frames' = Append(SetTop([Top EXCEPT !.pc = "wait"]),
                        NewFrame("restituted", RemainingReqs(Top)))
    /\ passes' = Append(passes, "restituted")
    /\ UNCHANGED <<selectVars, cacheVars, queryVars, downloadVars, product,
                   eof_lists, requests, client, sh, outcome, urls_out,
                   consulted, answers, unresolved, margins>>

\* the loop is over and there is nothing to retry, or no retry for this type
ASFLoopDone ==
    /\ client = "asf" /\ frames # <<>>
    /\ Top.pc = "loop" /\ Top.i > Len(Top.reqs)
    /\ ~(Top.remaining # <<>> /\ ShouldFallback(Top.orbit_type))
    /\ unresolved' = Top.remaining
    /\ frames' = SetTop([Top EXCEPT !.pc = "ret"])
    /\ UNCHANGED <<selectVars, cacheVars, queryVars, downloadVars, product,
                   eof_lists, requests, client, sh, outcome, urls_out,
                   consulted, answers, passes, margins>>

\* "return urls": into urls.extend(...) of the caller, or out of the client
ASFReturn ==
    /\ client = "asf" /\ frames # <<>>
    /\ Top.pc = "ret"
    /\ IF Len(frames) = 1
       THEN /\ urls_out' = Top.urls
            /\ outcome' = "returned"
            /\ frames' = <<>>
       ELSE /\ frames' = [i \in 1..(Len(frames) - 1) |->
                            IF i = Len(frames) - 1
                            THEN [frames[i] EXCEPT !.urls = @ \o Top.urls, !.pc = "ret"]
                            ELSE frames[i]]
            /\ UNCHANGED <<urls_out, outcome>>
    /\ UNCHANGED <<selectVars, cacheVars, queryVars, downloadVars, product,
                   eof_lists, requests, client, sh, consulted, answers,
                   passes, unresolved, margins>>

----------------------------------------------------------------------------
(* eof/scihubclient.py : ScihubGnssClient *)

ScihubT0 == Seconds(86400)

ScihubT1 == Seconds(86400)

\* query_orbit: the products of the type and satellite whose validity
\* begins no later than t1 and ends no earlier than t0
QueryOrbit(t0, t1, satellite_id, orbit_type) ==
    LET Match(p) == /\ p.mission = satellite_id
                    /\ p.start_time <= t1
                    /\ p.stop_time >= t0
    IN  SelectSeq(eof_lists[orbit_type], Match)

\* _select_orbit: {} without products, else the products named by lastval_cover
SelectOrbit(products, t0, t1) ==
    IF products = <<>> THEN Ok({})
    ELSE LET product_id == lastval_cover(t0, t1, products, None) IN
         IF ~product_id.ok THEN ValidityError
         ELSE Ok({p \in Range(products) : Filename(p) = product_id.val[1]})

ScihubQueryOrbitByDt ==
    /\ client = "none"
    /\ \E orbit_type \in {"precise", "restituted"} : passes' = <<orbit_type>>
    /\ client' = "scihub"
    /\ outcome' = "running"
    /\ sh' = [i |-> 1, query |-> {}, remaining |-> <<>>]
    /\ margins' = [t0 |-> ScihubT0, t1 |-> ScihubT1]
    /\ UNCHANGED <<selectVars, cacheVars, queryVars, downloadVars, product,
                   eof_lists, requests, frames, urls_out, consulted,
                   answers, unresolved>>

\* one iteration of "for dt, mission in zip(orbit_dts, missions)"
ScihubLookup ==
    /\ client = "scihub" /\ outcome = "running"
    /\ sh.i <= Len(requests)
    /\ LET q == requests[sh.i]
           wantPrecise == passes[1] = "precise"
           poe == QueryOrbit(q.dt - margins.t0, q.dt + margins.t1, q.mission, "precise")
           sel1 == SelectOrbit(poe, q.dt, q.dt + Seconds(60))
           \* except ValidityError: result = None
           result1 == IF wantPrecise /\ sel1.ok THEN sel1.val ELSE {}
           res == QueryOrbit(q.dt - Seconds(3600), q.dt + Seconds(3600),
                             q.mission, "restituted")
           sel2 == IF res # <<>> THEN SelectOrbit(res, q.dt, q.dt + Seconds(60))
                   ELSE Ok({})
       IN  IF result1 # {}
           THEN /\ sh' = [sh EXCEPT !.i = @ + 1, !.query = @ \cup result1]
                /\ consulted' = consulted \cup {<<"precise", q>>}
                /\ answers' = answers \cup {<<q, p>> : p \in result1}
                /\ UNCHANGED outcome
           ELSE /\ consulted' = consulted \cup {<<"restituted", q>>}
                                 \cup (IF wantPrecise THEN {<<"precise", q>>} ELSE {})
                /\ IF ~sel2.ok
                   THEN /\ outcome' = "ValidityError"
                        /\ UNCHANGED <<sh, answers>>
                   ELSE /\ sh' = [sh EXCEPT !.i = @ + 1,
                                  !.query = @ \cup sel2.val,
                                  !.remaining = IF sel2.val = {} THEN Append(@, q) ELSE @]
                        /\ answers' = answers \cup {<<q, p>> : p \in sel2.val}
                        /\ UNCHANGED outcome
    /\ UNCHANGED <<selectVars, cacheVars, queryVars, downloadVars, product,
                   eof_lists, requests, client, frames, urls_out,
                   passes, unresolved, margins>>

\* "if remaining_dates: logger.warning(...)" and "return query"
ScihubReturn ==
    /\ client = "scihub" /\ outcome = "running"
    /\ sh.i > Len(requests)
    /\ unresolved' = sh.remaining
    /\ outcome' = "returned"
    /\ UNCHANGED <<selectVars, cacheVars, queryVars, downloadVars, product,
                   eof_lists, requests, client, frames, sh, urls_out,
                   consulted, answers, passes, margins>>

----------------------------------------------------------------------------
(* Inputs of the batch specification *)

BatchDts == {Seconds(10000)}

\* precise windows: one covering the request under every client's test, one
\* starting only 60 s before the request
BatchPreciseWindows ==
    { <<Seconds(4015), Seconds(10400)>>, <<Seconds(9940), Seconds(10400)>> }

\* restituted windows: one covering the request under every client's test,
\* one starting 1 s before the request, one stopping 100 s after the request
BatchRestitutedWindows ==
    { <<Seconds(9600), Seconds(10400)>>, <<Seconds(9999), Seconds(10400)>>,
      <<Seconds(9600), Seconds(10100)>> }

BatchPrecise ==
    { Rec(m, "precise", 1, w[1], w[2]) : m \in Missions, w \in BatchPreciseWindows }

BatchRestituted ==
    { Rec(m, "restituted", 1, w[1], w[2]) : m \in Missions, w \in BatchRestitutedWindows }

BatchRequests == { [dt |-> dt, mission |-> m] : dt \in BatchDts, m \in Missions }

InitBatch ==
    /\ data = <<>>
    /\ call = NoCall
    /\ recall = NoCall
    /\ CacheIdle
    /\ DownloadIdle
    /\ ParseIdle
    /\ QueryIdle
    /\ \E p \in SeqsUpTo(BatchPrecise, MaxRecords),
          r \in SeqsUpTo(BatchRestituted, MaxRecords) :
          /\ Len(p) + Len(r) <= MaxRecords
          /\ eof_lists = [precise |-> p, restituted |-> r]
    /\ requests \in (SeqsUpTo(BatchRequests, MaxBatch) \ {<<>>})
    /\ client = "none"
    /\ frames = <<>>
    /\ sh = [i |-> 0, query |-> {}, remaining |-> <<>>]
    /\ outcome = "none"
    /\ urls_out = <<>>
    /\ consulted = {}
    /\ answers = {}
    /\ passes = <<>>
    /\ unresolved = <<>>
    /\ margins = [t0 |-> ClientT0, t1 |-> ClientT1]

NextBatch ==
    \/ ASFQueryOrbitByDt
    \/ ASFLookup
    \/ ASFRecurse
    \/ ASFLoopDone
    \/ ASFReturn
    \/ ScihubQueryOrbitByDt
    \/ ScihubLookup
    \/ ScihubReturn

SpecBatch == InitBatch /\ [][NextBatch]_vars

----------------------------------------------------------------------------
(* Properties of the selector functions *)

\* the margin of a request: the caller's value, the default when omitted
GivenOr(m, default) == IF m = None THEN default ELSE m[1]

ReqMargin0 ==
    GivenOr(call.margin0,
            IF call.fn = "lastval_cover" THEN LastvalCoverMargin ELSE DefaultMargin0)

ReqMargin1 ==
    GivenOr(call.margin1,
            IF call.fn = "lastval_cover" THEN LastvalCoverMargin ELSE DefaultMargin1)

\* both coverage inequalities, for the request of the last call
ReqCovers(r) ==
    /\ r.start_time <= call.t0 - ReqMargin0
    /\ r.stop_time >= call.t1 + ReqMargin1

SameWindow(a, b) == a.start_time = b.start_time /\ a.stop_time = b.stop_time

\* C1: every record returned by valid_orbits starts no later than t0 - m0 and
\* stops no earlier than t1 + m1, for the margins of the request.
C1_CoverageInvariant ==
    (call.fn = "valid_orbits" /\ call.ok) =>
        \A i \in 1..Len(call.val) :
            /\ call.val[i].start_time <= call.t0 - ReqMargin0
            /\ call.val[i].stop_time >= call.t1 + ReqMargin1

C1_Witness ==
    /\ call.fn = "valid_orbits" /\ call.ok
    /\ call.margin0 # None /\ call.margin1 # None
    /\ Len(call.val) >= 2
    /\ \E r \in Range(data) : r.start_time <= call.t0 - ReqMargin0 /\ ~ReqCovers(r)

\* C2: last_valid_orbit and lastval_cover return the file of a covering record
\* whose created_time is the maximum over all records of the catalog that
\* satisfy the coverage test of the request.
C2_MaxCreatedAmongCovering ==
    (call.fn \in {"last_valid_orbit", "lastval_cover"} /\ call.ok) =>
        \E r \in Range(data) :
            /\ Filename(r) = call.val[1]
            /\ ReqCovers(r)
            /\ \A x \in Range(data) : ReqCovers(x) => x.created_time <= r.created_time

\* C3: of two covering records with the same validity window and different
\* created_time, valid_orbits returns only the later created one.
C3_DedupKeepsLater ==
    (call.fn = "valid_orbits" /\ call.ok) =>
        \A a, b \in Range(data) :
            (/\ ReqCovers(a) /\ ReqCovers(b) /\ SameWindow(a, b)
             /\ a.created_time < b.created_time)
            => /\ a \notin Range(call.val)
               /\ \E r \in Range(call.val) :
                     SameWindow(r, b) /\ r.created_time >= b.created_time

C3_Witness ==
    /\ call.fn = "valid_orbits" /\ call.ok
    /\ \E a, b \in Range(data) :
          /\ ReqCovers(a) /\ ReqCovers(b) /\ SameWindow(a, b)
          /\ a.created_time < b.created_time
          /\ b \in Range(call.val)
          \* the older record comes later in the catalog
          /\ \E i, j \in 1..Len(data) : i < j /\ data[i] = b /\ data[j] = a

\* C4: valid_orbits returns exactly one record per distinct validity window
\* of the covering records: no covering window is missing, no window appears
\* twice, and the record kept has the greatest created_time of its window.
C4_OnePerWindow ==
    (call.fn = "valid_orbits" /\ call.ok) =>
        /\ \A a \in Range(data) :
              ReqCovers(a) =>
                  \E i \in 1..Len(call.val) :
                      /\ SameWindow(call.val[i], a)
                      /\ call.val[i].created_time >= a.created_time
        /\ \A i, j \in 1..Len(call.val) :
              i # j => ~SameWindow(call.val[i], call.val[j])
        /\ \A i \in 1..Len(call.val) :
              call.val[i] \in Range(data) /\ ReqCovers(call.val[i])

C4_Witness ==
    /\ call.fn = "valid_orbits" /\ call.ok
    /\ Len(data) = 3 /\ Len(call.val) = 1
    /\ \A i \in 1..3 : ReqCovers(data[i])
    /\ data[1].created_time = 2 /\ data[2].created_time = 3
    /\ data[3].created_time = 1
    /\ call.val[1] = data[2]

C4_WitnessTwoWindows ==
    /\ call.fn = "valid_orbits" /\ call.ok
    /\ Len(data) = 3 /\ Len(call.val) = 2
    /\ \A i \in 1..3 : ReqCovers(data[i])

\* C9: valid_orbits and last_valid_orbit raise ValidityError exactly when no
\* record of the catalog satisfies both coverage inequalities of the request;
\* a record satisfying only one of them is never returned.
C9_ErrorIffNoCover ==
    (call.fn \in {"valid_orbits", "last_valid_orbit"}) =>
        /\ ~call.ok <=> ~(\E r \in Range(data) : ReqCovers(r))
        /\ call.fn = "valid_orbits" =>
              \A i \in 1..Len(call.val) : ReqCovers(call.val[i])
        /\ (call.fn = "last_valid_orbit" /\ call.ok) =>
              \E r \in Range(data) : Filename(r) = call.val[1] /\ ReqCovers(r)

\* the same for valid_orbits alone
C9_ValidOrbitsErrorIffNoCover ==
    (call.fn = "valid_orbits") =>
        /\ ~call.ok <=> ~(\E r \in Range(data) : ReqCovers(r))
        /\ \A i \in 1..Len(call.val) : ReqCovers(call.val[i])

----------------------------------------------------------------------------
(* Properties of batch resolution *)

\* some precise record of the request's mission passes the coverage test
\* of the running client's precise pass
PreciseCovered(q) ==
    \E r \in Range(eof_lists.precise) :
        /\ r.mission = q.mission
        /\ IF client = "asf"
           THEN /\ r.start_time <= q.dt - (T_ORBIT + Seconds(60))
                /\ r.stop_time >= q.dt + Seconds(300)
           ELSE /\ r.start_time <= q.dt - Seconds(300)
                /\ r.stop_time >= (q.dt + Seconds(60)) + Seconds(300)

\* some restituted record of the request's mission passes the coverage test
\* of get_download_urls' restituted pass
AsfRestitutedCovers(r, q) ==
    /\ r.mission = q.mission
    /\ r.start_time <= q.dt - Seconds(60)
    /\ r.stop_time >= q.dt + Seconds(300)

AsfRestitutedCovered(q) ==
    \E r \in Range(eof_lists.restituted) : AsfRestitutedCovers(r, q)

StartedPrecise == passes # <<>> /\ passes[1] = "precise"

\* what the running call has collected so far / has returned
Collected ==
    IF client = "asf"
    THEN IF frames # <<>> THEN Range(frames[1].urls) ELSE Range(urls_out)
    ELSE sh.query

IsPrefix(a, b) == Len(a) <= Len(b) /\ SubSeq(b, 1, Len(a)) = a

C5_Inv ==
    StartedPrecise =>
        /\ \A q \in Range(requests) :
              <<"restituted", q>> \in consulted =>
                  /\ <<"precise", q>> \in consulted
                  /\ ~PreciseCovered(q)
        /\ \A c \in consulted : c[2] \in Range(requests)
        /\ outcome = "returned" =>
              \A q \in Range(requests) :
                  /\ ~PreciseCovered(q) => <<"restituted", q>> \in consulted
                  /\ PreciseCovered(q) =>
                        \E a \in answers :
                            /\ a[1] = q
                            /\ a[2] \in Collected
                            /\ \A b \in answers : b[1] = q => b = a

C5_Step ==
    /\ answers \subseteq answers'
    /\ (client = "asf" /\ frames # <<>> /\ frames' # <<>>) =>
           IsPrefix(frames[1].urls, frames'[1].urls)
    /\ (client = "asf" /\ frames # <<>> /\ frames' = <<>>) =>
           urls_out' = frames[1].urls
    /\ (client = "scihub" /\ outcome = "running") => sh.query \subseteq sh'.query

\* C5: in a call started with orbit_type precise, the restituted catalog is
\* consulted for exactly the requests without a covering precise record; a
\* request resolved in the precise pass is never looked up again and its
\* result stays in the collected output.
C5_FallbackOnlyForMisses == [](C5_Inv) /\ [][C5_Step]_vars

C5_Witness ==
    /\ StartedPrecise /\ outcome = "returned"
    /\ \E q1, q2 \in Range(requests) :
          /\ PreciseCovered(q1) /\ ~PreciseCovered(q2)
          /\ <<"restituted", q2>> \in consulted
          /\ <<"restituted", q1>> \notin consulted
          /\ \E a, b \in answers : a[1] = q1 /\ b[1] = q2

\* C6: a coverage miss never leaves batch resolution as an exception: the
\* request is recorded as unresolved, the other requests are still processed
\* and the call returns.
C6_MissNeverRaises ==
    /\ outcome # "ValidityError"
    /\ outcome = "returned" =>
          \A q \in Range(requests) :
              /\ \E c \in consulted : c[2] = q
              /\ (\A a \in answers : a[1] # q) <=> q \in Range(unresolved)

\* the same for the ASF client alone
C6_AsfMissNeverRaises ==
    client = "asf" =>
        /\ outcome # "ValidityError"
        /\ outcome = "returned" =>
              \A q \in Range(requests) :
                  /\ \E c \in consulted : c[2] = q
                  /\ (\A a \in answers : a[1] # q) <=> q \in Range(unresolved)

C8_Inv ==
    client = "asf" =>
        /\ Len(passes) <= 2 /\ Len(frames) <= 2
        /\ Len(passes) = 2 => passes = <<"precise", "restituted">>
        /\ \A i \in 1..Len(frames) : frames[i].orbit_type = passes[i]
        /\ (passes # <<>> /\ passes[1] = "restituted") =>
              /\ Len(passes) = 1
              /\ \A c \in consulted : c[1] = "restituted"

RECURSIVE FrameRank(_)
FrameRank(i) ==
    IF i = 0 THEN 0
    ELSE LET f == frames[i] IN
         FrameRank(i - 1) + (Len(f.reqs) + 1 - f.i)
             + (IF f.pc = "loop" THEN 2 ELSE IF f.pc = "wait" THEN 1 ELSE 0)

\* steps the running get_download_urls call can still take, at most
Rank ==
    IF client = "asf" /\ outcome = "running"
    THEN 1 + (2 - Len(passes)) * (Len(requests) + 3) + FrameRank(Len(frames))
    ELSE 0

\* a running call is never stuck: its innermost frame is in the loop or
\* about to return, where ASFLookup, ASFRecurse, ASFLoopDone or ASFReturn
\* can act
C8_Progress ==
    (client = "asf" /\ outcome = "running") =>
        /\ Rank > 0
        /\ frames # <<>>
        /\ Top.pc \in {"loop", "ret"}
        /\ Top.i \in 1..(Len(Top.reqs) + 1)
        /\ \A i \in 1..(Len(frames) - 1) : frames[i].pc = "wait"

C8_Step == (client = "asf" /\ outcome = "running") => Rank' < Rank

\* C8: get_download_urls runs precise pass -> restituted pass -> done: a
\* precise call makes at most one recursive call, of type restituted; a
\* restituted call makes none and never looks at the precise catalog; every
\* call can always take a next step and the number of steps left decreases
\* with each, so it returns after at most two passes.
C8_AtMostTwoPasses == [](C8_Inv /\ C8_Progress) /\ [][C8_Step]_vars

C8_Witness ==
    /\ client = "asf" /\ outcome = "returned"
    /\ passes = <<"precise", "restituted">>
    /\ unresolved # <<>>

\* C10: the coverage test uses exactly the margins handed in by the caller,
\* each on its own and also when zero; a default stands in only for an
\* omitted margin.  For the selector functions and for the client-level
\* ASFClient.query_orbit_by_dt.
C10_MarginsAsPassed ==
    /\ (call.fn \in {"valid_orbits", "last_valid_orbit"}) =>
          LET m0 == IF call.margin0 = None THEN DefaultMargin0 ELSE call.margin0[1]
              m1 == IF call.margin1 = None THEN DefaultMargin1 ELSE call.margin1[1]
          IN  call.ok <=> \E r \in Range(data) :
                              /\ r.start_time <= call.t0 - m0
                              /\ r.stop_time >= call.t1 + m1
    /\ (client = "asf" /\ outcome = "returned" /\ StartedPrecise) =>
          \A q \in Range(requests) :
              (\E r \in Range(eof_lists.precise) :
                   /\ r.mission = q.mission
                   /\ r.start_time <= q.dt - margins.t0
                   /\ r.stop_time >= q.dt + margins.t1)
              <=> (\E a \in answers : a[1] = q /\ a[2][1] = Urls("precise"))

----------------------------------------------------------------------------
(* Default margins of the batch resolution *)

\* some record of the listing of that orbit type covers the request under the
\* given margins
CoveredWith(orbit_type, q, before, after) ==
    \E i \in 1..Len(eof_lists[orbit_type]) :
        LET r == eof_lists[orbit_type][i] IN
            /\ r.mission = q.mission
            /\ r.start_time <= q.dt - before
            /\ r.stop_time >= q.dt + after

AnsweredFrom(orbit_type, q) ==
    \E a \in answers : a[1] = q /\ a[2][1] = Urls(orbit_type)

\* C11: batch resolution tests coverage with margin_before = T_ORBIT + 60 s
\* and margin_after = 300 s in the precise pass, and with margin_before = 60 s
\* and margin_after = 60 s in the restituted pass: a request looked up in a
\* pass is resolved by it exactly when a record covers it under these margins.
C11_DefaultMargins ==
    (client = "asf" /\ outcome = "returned") =>
        \A c \in consulted :
            AnsweredFrom(c[1], c[2]) <=>
                IF c[1] = "precise"
                THEN CoveredWith("precise", c[2], T_ORBIT + Seconds(60), Seconds(300))
                ELSE CoveredWith("restituted", c[2], Seconds(60), Seconds(60))

\* the same with the margins the ASF client applies in the restituted pass
C11_AsfAppliedMargins ==
    (client = "asf" /\ outcome = "returned") =>
        \A c \in consulted :
            AnsweredFrom(c[1], c[2]) <=>
                IF c[1] = "precise"
                THEN CoveredWith("precise", c[2], T_ORBIT + Seconds(60), Seconds(300))
                ELSE CoveredWith("restituted", c[2], Seconds(60), Seconds(300))

----------------------------------------------------------------------------
(* Closed coverage boundary *)

\* a covering record with one bound met with equality
AtBoundary(r) ==
    /\ ReqCovers(r)
    /\ \/ r.start_time = call.t0 - ReqMargin0
       \/ r.stop_time = call.t1 + ReqMargin1

\* the call returned a record of the window of r (valid_orbits), or a file at
\* least as fresh as r (last_valid_orbit)
ReturnedOrOutranked(r) ==
    /\ call.ok
    /\ call.fn = "valid_orbits" =>
            \E j \in 1..Len(call.val) : SameWindow(call.val[j], r)
    /\ call.fn = "last_valid_orbit" => call.val[1][3] >= r.created_time

\* C12: a record whose stop_time equals t1 + margin_after exactly, or whose
\* start_time equals t0 - margin_before exactly, counts as covering: after
\* valid_orbits its window is in the result, and last_valid_orbit returns a
\* file at least as fresh as it.
C12_ClosedBoundary ==
    call.fn \in {"valid_orbits", "last_valid_orbit"} =>
        \A r \in Range(data) : AtBoundary(r) => ReturnedOrOutranked(r)

\* the same for valid_orbits alone, and for last_valid_orbit called with
\* margins that are omitted or not zero
C12_ClosedBoundaryUnlessZeroMargin ==
    ( \/ call.fn = "valid_orbits"
      \/ /\ call.fn = "last_valid_orbit"
         /\ call.margin0 # TimeDelta(0)
         /\ call.margin1 # TimeDelta(0) ) =>
        \A r \in Range(data) : AtBoundary(r) => ReturnedOrOutranked(r)

C12_BoundaryReached ==
    /\ call.fn = "last_valid_orbit" /\ call.ok
    /\ call.margin0 = TimeDelta(Seconds(60))
    /\ \E r \in Range(data) :
          /\ r.start_time = call.t0 - ReqMargin0
          /\ r.stop_time = call.t1 + ReqMargin1
          /\ call.val[1] = Filename(r)

----------------------------------------------------------------------------
(* Order of the candidates *)

WindowLeq(a, b) ==
    \/ a.start_time < b.start_time
    \/ a.start_time = b.start_time /\ a.stop_time <= b.stop_time

\* C13: the sequence returned by valid_orbits is in ascending order of
\* (start_time, stop_time), whatever the order of the catalog.
C13_SortedByWindow ==
    (call.fn = "valid_orbits" /\ call.ok) =>
        \A i, j \in 1..Len(call.val) :
            i < j => WindowLeq(call.val[i], call.val[j])

\* the catalog lists two covering records in descending window order
C13_Witness ==
    /\ call.fn = "valid_orbits" /\ call.ok
    /\ Len(call.val) >= 2
    /\ \E i, j \in 1..Len(data) :
          /\ i < j
          /\ ReqCovers(data[i]) /\ ReqCovers(data[j])
          /\ ~WindowLeq(data[i], data[j])

----------------------------------------------------------------------------
(* Repeated selection *)

C14_Inv ==
    recall.fn = "last_valid_orbit" =>
        /\ recall.ok = call.ok
        /\ recall.val = call.val

C14_Step ==
    (call' # call \/ recall' # recall) /\ call'.fn = "last_valid_orbit" =>
        data' = data

----------------------------------------------------------------------------
(* Independence of the requests of a batch *)

\* what one pass gives a request resolved on its own: the file of a freshest
\* record of its mission that covers it under the margins of that pass
AloneFrom(orbit_type, q) ==
    LET before == IF orbit_type = "precise" THEN T_ORBIT + Seconds(60)
                  ELSE Seconds(60)
        cov == {r \in Range(eof_lists[orbit_type]) :
                    /\ r.mission = q.mission
                    /\ r.start_time <= q.dt - before
                    /\ r.stop_time >= q.dt + Seconds(300)}
        newest == {c \in cov : \A d \in cov : d.created_time <= c.created_time}
    IN  {Url(orbit_type, Filename(r)) : r \in newest}

\* what the call gives a request resolved on its own
Alone(q) ==
    IF AloneFrom(passes[1], q) # {} THEN AloneFrom(passes[1], q)
    ELSE IF passes[1] = "precise" THEN AloneFrom("restituted", q)
    ELSE {}

Count(seq, u) == Cardinality({i \in 1..Len(seq) : seq[i] = u})

\* C15: over fixed listings, each request of a batch receives the file it
\* would receive resolved alone, and the returned urls are, as a multiset, the
\* union of the results of resolving each request alone; the position of a
\* request in the batch plays no part.
C15_RequestIndependence ==
    (client = "asf" /\ outcome = "returned") =>
        /\ \A a \in answers : a[2] \in Alone(a[1])
        /\ \A u \in Range(urls_out) \cup
                      UNION {Alone(requests[i]) : i \in 1..Len(requests)} :
                Count(urls_out, u) =
                    Cardinality({i \in 1..Len(requests) : u \in Alone(requests[i])})

\* the first request falls back to restituted, the second is resolved precise:
\* the urls come back in the other order
C15_Witness ==
    /\ client = "asf" /\ outcome = "returned"
    /\ Len(requests) = 2 /\ Len(urls_out) = 2
    /\ requests[1] # requests[2]
    /\ urls_out[1] \in Alone(requests[2])
    /\ urls_out[2] \in Alone(requests[1])
    /\ urls_out[1][1] = Urls("precise")
    /\ urls_out[2][1] = Urls("restituted")

----------------------------------------------------------------------------
(* eof/asf_client.py : ASFClient.get_full_eof_list and the listing cache *)

\* start times (days) of the orbit files a listing may hold
StartTimes == {1, 2}

\* SentinelOrbit(filename) as far as the listing cache reads it
SentinelOrbit(filename) == [filename |-> filename, start_time |-> filename[2]]

\* an orbit file name with the given validity start
EofName(t) == <<"EOF", t>>

\* every order in which the elements of a set can be listed
RECURSIVE Orderings(_)
Orderings(S) ==
    IF S = {} THEN {<<>>}
    ELSE UNION {{<<x>> \o rest : rest \in Orderings(S \ {x})} : x \in S}

CacheLines_LastFirst(eof_list) ==
    [i \in 1..Len(eof_list) |-> eof_list[Len(eof_list) + 1 - i].filename]

\* _write_cached_filenames: one filename per line
CacheLines(eof_list) == [i \in 1..Len(eof_list) |-> eof_list[i].filename]

\* _get_cached_filenames: one SentinelOrbit per line
CachedEofs(lines) == [i \in 1..Len(lines) |-> SentinelOrbit(lines[i])]

\* max((e.start_time for e in eof_list)), for a list that is not empty
MaxSaved(eof_list) ==
    CHOOSE m \in {eof_list[i].start_time : i \in 1..Len(eof_list)} :
        \A i \in 1..Len(eof_list) : eof_list[i].start_time <= m

NeedsClear_NotAfter(max_saved, max_dt) == max_dt = None \/ max_saved <= max_dt[1]

\* "if not max_dt or (max_saved < max_dt)"
NeedsClear(max_saved, max_dt) == max_dt = None \/ max_saved < max_dt[1]

\* what requests.get hands back: the listing page, an error page, or an
\* exception raised by the transport
Responses == {"ok", "http_error", "connection_error"}

\* finder.eof_links after feeding resp.text: an error page holds no links
EofLinks(response, orbit_type) ==
    IF response = "ok" THEN {EofName(t) : t \in upstream[orbit_type]} ELSE {}

\* latest requested time handed to get_full_eof_list
MaxDts == {None, TimeDelta(1), TimeDelta(2), TimeDelta(3)}

GotList(cache_dir, orbit_type, max_dt, fetched, response, out, result) ==
    [outcome |-> out, orbit_type |-> orbit_type, cache_dir |-> cache_dir,
     max_dt |-> max_dt, memo_before |-> memo[orbit_type],
     disk_before |-> disk[cache_dir][orbit_type],
     fetched |-> fetched, response |-> response, result |-> result]

\* lines 248-256: fetch the listing page, memoize and cache what it links to;
\* disk_now is the cache as the lines before left it
FetchAndStore(cache_dir, orbit_type, max_dt, response, disk_now) ==
    IF response = "connection_error"
    THEN /\ memo' = memo
         /\ disk' = disk_now
         /\ lastget' = GotList(cache_dir, orbit_type, max_dt, TRUE, response,
                               "ConnectionError", None)
    ELSE \E links \in Orderings(EofLinks(response, orbit_type)) :
            LET eof_list == [i \in 1..Len(links) |-> SentinelOrbit(links[i])] IN
                /\ memo' = [memo EXCEPT ![orbit_type] = <<eof_list>>]
                /\ disk' = [disk_now EXCEPT ![cache_dir][orbit_type] =
                                                <<CacheLines(eof_list)>>]
                /\ lastget' = GotList(cache_dir, orbit_type, max_dt, TRUE,
                                      response, "returned", <<eof_list>>)

GetFullEofList ==
    /\ \E cache_dir \in CacheDirs, orbit_type \in OrbitTypes, max_dt \in MaxDts :
        IF memo[orbit_type] # None
        THEN /\ lastget' = GotList(cache_dir, orbit_type, max_dt, FALSE, "none",
                                   "returned", memo[orbit_type])
             /\ UNCHANGED <<memo, disk>>
        ELSE IF disk[cache_dir][orbit_type] # None
        THEN LET eof_list == CachedEofs(disk[cache_dir][orbit_type][1]) IN
             IF eof_list = <<>>
             THEN \* max() of an empty sequence
                  /\ lastget' = GotList(cache_dir, orbit_type, max_dt, FALSE,
                                        "none", "ValueError", None)
                  /\ UNCHANGED <<memo, disk>>
             ELSE IF NeedsClear(MaxSaved(eof_list), max_dt)
             THEN \E response \in Responses :
                     FetchAndStore(cache_dir, orbit_type, max_dt, response,
                                   [disk EXCEPT ![cache_dir][orbit_type] = None])
             ELSE /\ memo' = [memo EXCEPT ![orbit_type] = <<eof_list>>]
                  /\ lastget' = GotList(cache_dir, orbit_type, max_dt, FALSE,
                                        "none", "returned", <<eof_list>>)
                  /\ UNCHANGED disk
        ELSE \E response \in Responses :
                FetchAndStore(cache_dir, orbit_type, max_dt, response, disk)
    /\ UNCHANGED <<upstream, selectVars, batchVars, queryVars, downloadVars, product>>

\* a new interpreter: the class attribute eof_lists starts over, files stay
NewProcess ==
    /\ lastget.outcome # "none"
    /\ memo' = [ot \in OrbitTypes |-> None]
    /\ lastget' = NoGet
    /\ UNCHANGED <<disk, upstream, selectVars, batchVars, queryVars, downloadVars, product>>

\* the server lists every orbit file published so far
Published == {1..k : k \in StartTimes}

\* a cache file left by an earlier run: none, or the listing of that day
EarlierCaches ==
    {None} \cup {<<[i \in S |-> EofName(i)]>> : S \in Published}

InitCache ==
    /\ data = <<>>
    /\ call = NoCall
    /\ recall = NoCall
    /\ BatchIdle
    /\ DownloadIdle
    /\ ParseIdle
    /\ QueryIdle
    /\ memo = [ot \in OrbitTypes |-> None]
    /\ upstream \in [OrbitTypes -> Published]
    /\ \E c \in [OrbitTypes -> EarlierCaches] :
          disk = [d \in CacheDirs |->
                    IF d = "cacheA" THEN c ELSE [ot \in OrbitTypes |-> None]]
    /\ lastget = NoGet

NextCache == GetFullEofList \/ NewProcess

SpecCache == InitCache /\ [][NextCache]_vars

----------------------------------------------------------------------------
(* Freshness of the cached listing *)

\* the last call found a cache file with a listing in it and was given a
\* latest requested time
CacheConsultable ==
    /\ lastget.outcome # "none"
    /\ lastget.disk_before # None
    /\ lastget.disk_before[1] # <<>>
    /\ lastget.max_dt # None

CacheWasStale ==
    MaxSaved(CachedEofs(lastget.disk_before[1])) < lastget.max_dt[1]

\* stale: the file is removed and the listing fetched (the file is gone, or
\* holds what the fetch returned); not stale: the cached listing is returned
\* without a fetch
FreshnessRespected ==
    IF CacheWasStale
    THEN /\ lastget.fetched
         /\ disk[lastget.cache_dir][lastget.orbit_type] =
                IF lastget.outcome = "returned"
                THEN <<CacheLines(lastget.result[1])>> ELSE None
    ELSE /\ ~lastget.fetched
         /\ lastget.outcome = "returned"
         /\ lastget.result = <<CachedEofs(lastget.disk_before[1])>>

\* C16: when a cached listing exists for the orbit type and a latest requested
\* time is given, the cache is stale exactly when its newest start_time is
\* earlier than that time; a stale cache is deleted and the listing fetched
\* from upstream, a cache that is not stale is used without a fetch.
C16_CacheFreshness == CacheConsultable => FreshnessRespected

\* the same for calls made while no listing of that type is memoized
C16_CacheFreshnessUnmemoized ==
    (CacheConsultable /\ lastget.memo_before = None) => FreshnessRespected

C16_StaleRefetched ==
    /\ CacheConsultable /\ lastget.memo_before = None
    /\ CacheWasStale /\ lastget.outcome = "returned"

C16_FreshUsed ==
    /\ CacheConsultable /\ lastget.memo_before = None
    /\ MaxSaved(CachedEofs(lastget.disk_before[1])) = lastget.max_dt[1]

----------------------------------------------------------------------------
(* Failed fetch of the listing *)

\* C17: when the fetch of the listing fails (exception of the transport, or
\* an HTTP error response), get_full_eof_list raises: it does not return, and
\* it leaves no listing, empty or not, from that fetch in the memo or in the
\* cache file.
C17_FailedFetchPropagates ==
    (lastget.fetched /\ lastget.response \in {"http_error", "connection_error"}) =>
        /\ lastget.outcome # "returned"
        /\ memo[lastget.orbit_type] = lastget.memo_before
        /\ disk[lastget.cache_dir][lastget.orbit_type] \in {None, lastget.disk_before}

\* the same for an exception raised by the transport alone
C17_TransportErrorPropagates ==
    (lastget.fetched /\ lastget.response = "connection_error") =>
        /\ lastget.outcome = "ConnectionError"
        /\ memo[lastget.orbit_type] = lastget.memo_before
        /\ disk[lastget.cache_dir][lastget.orbit_type] = None

----------------------------------------------------------------------------
(* A loaded listing older than the latest requested time *)

\* the last call returned, without a fetch, a listing that is not empty
ReturnedLoaded ==
    /\ lastget.outcome = "returned"
    /\ ~lastget.fetched
    /\ lastget.max_dt # None
    /\ lastget.result[1] # <<>>

\* C27: a call with latest requested time max_dt never returns a listing
\* loaded before the call (memoized, or read from the cache file) whose newest
\* start_time is earlier than max_dt; such a listing is fetched again.
C27_NoStaleLoadedListing ==
    ReturnedLoaded => MaxSaved(lastget.result[1]) >= lastget.max_dt[1]

\* the same for the listings read from the cache file
C27_NoStaleCachedListing ==
    (ReturnedLoaded /\ lastget.memo_before = None) =>
        MaxSaved(lastget.result[1]) >= lastget.max_dt[1]

\* a memoized listing is handed back to a call that asks for a later time
C27_MemoizedReturned ==
    /\ ReturnedLoaded /\ lastget.memo_before # None
    /\ MaxSaved(lastget.result[1]) < lastget.max_dt[1]

----------------------------------------------------------------------------
(* What a fetch writes, and what it leaves alone *)

\* the file holds one line per orbit file of the listing, in its order
HoldsExactly(lines, eof_list) ==
    /\ Len(lines) = Len(eof_list)
    /\ \A i \in 1..Len(eof_list) : lines[i] = eof_list[i].filename

C28_Step ==
    (lastget'.fetched /\ lastget'.outcome = "returned") =>
        LET kind == lastget'.orbit_type
            dir  == lastget'.cache_dir
        IN  /\ disk'[dir][kind] # None
            /\ HoldsExactly(disk'[dir][kind][1], lastget'.result[1])
            /\ \A other \in OrbitTypes \ {kind} :
                    /\ memo'[other] = memo[other]
                    /\ disk'[dir][other] = disk[dir][other]

\* C28: whenever get_full_eof_list(kind) returns after a fetch, the cache
\* file of that kind holds exactly the filenames of the returned listing, one
\* per line in the same order, with nothing of the previous file left, and
\* the memo and the cache file of the other orbit type are unchanged.
C28_FetchReplacesOneKind == [][C28_Step]_vars

\* a fetch of two orbit files replaced a cache file that held another
\* listing, while the other orbit type was memoized and cached
C28_Witness ==
    /\ lastget.fetched /\ lastget.outcome = "returned"
    /\ lastget.disk_before # None
    /\ Len(lastget.result[1]) = 2
    /\ lastget.disk_before[1] # disk[lastget.cache_dir][lastget.orbit_type][1]
    /\ \A other \in OrbitTypes \ {lastget.orbit_type} :
            /\ memo[other] # None
            /\ disk[lastget.cache_dir][other] # None

----------------------------------------------------------------------------
(* Clients constructed with different cache directories *)

\* the last call answered from the cache file of its own directory, or from
\* a fetch of its own
AnsweredFromOwn ==
    \/ lastget.fetched
    \/ /\ lastget.disk_before # None
       /\ lastget.result = <<CachedEofs(lastget.disk_before[1])>>

\* C29: a listing loaded by one client is never returned by
\* get_full_eof_list of a client constructed with another cache directory;
\* each client answers from its own cache directory or its own fetch.
C29_ClientsIsolated == (lastget.outcome = "returned") => AnsweredFromOwn

\* the same while only the clients of one directory have loaded a listing
C29_OneDirectory ==
    (/\ lastget.outcome = "returned"
     /\ lastget.cache_dir = "cacheA"
     /\ \A ot \in OrbitTypes : disk["cacheB"][ot] = None) => AnsweredFromOwn

\* a client of the second directory, whose directory holds no cache file, is
\* handed the listing a client of the first directory loaded
C29_OtherClientsListing ==
    /\ lastget.outcome = "returned" /\ ~lastget.fetched
    /\ lastget.cache_dir = "cacheB"
    /\ lastget.disk_before = None
    /\ lastget.result[1] # <<>>
    /\ disk["cacheA"][lastget.orbit_type] = <<CacheLines(lastget.result[1])>>

----------------------------------------------------------------------------
(* eof/asf_client.py : ASFSession._download_and_write *)

\* a file name is its stem and its suffixes: <<"S1A_a", <<".EOF", ".zip">>>>
DownloadNames ==
    {<<stem, sfx>> : stem \in {"S1A_a", "S1B_b"},
                     sfx \in {<<".EOF">>, <<".EOF", ".zip">>}}

\* a url is the server directory and the file name
DownloadUrls == {<<Urls(ot), n>> : ot \in OrbitTypes, n \in DownloadNames}

\* url.split("/")[-1]
LastPathPart(url) == url[2]

\* Path.suffix
Suffix(fname) == fname[2][Len(fname[2])]

\* Path.with_suffix("")
WithoutSuffix(fname) == <<fname[1], SubSeq(fname[2], 1, Len(fname[2]) - 1)>>

\* _extract_zip: the archive holds the .EOF file of its own name; the archive
\* is removed afterwards (delete=True)
ExtractZip(dir, fname_zipped) == (dir \cup {WithoutSuffix(fname_zipped)}) \ {fname_zipped}

\* os.path.isfile(fname)
AlreadyThere(dir, fname) == fname \in dir

\* the server's answers to the plain GET and to the GET through the login url
GetAnswers == {<<"ok">>, <<"HTTPError", "ok">>, <<"HTTPError", "HTTPError">>}

Downloaded(url, gets, out, fname) ==
    [outcome |-> out, url |-> url, gets |-> gets, before |-> save_dir,
     fname |-> fname, prev_outcome |-> dl.outcome, prev_url |-> dl.url,
     prev_fname |-> dl.fname]

DownloadAndWrite ==
    /\ \E url \in DownloadUrls, replies \in GetAnswers :
        LET fname == LastPathPart(url) IN
        IF AlreadyThere(save_dir, fname)
        THEN /\ dl' = Downloaded(url, 0, "returned", fname)
             /\ UNCHANGED save_dir
        ELSE IF replies[Len(replies)] = "HTTPError"
        THEN /\ dl' = Downloaded(url, Len(replies), "HTTPError", <<>>)
             /\ UNCHANGED save_dir
        ELSE IF Suffix(fname) = ".zip"
        THEN /\ save_dir' = ExtractZip(save_dir \cup {fname}, fname)
             /\ dl' = Downloaded(url, Len(replies), "returned", WithoutSuffix(fname))
        ELSE /\ save_dir' = save_dir \cup {fname}
             /\ dl' = Downloaded(url, Len(replies), "returned", fname)
    /\ UNCHANGED <<selectVars, batchVars, cacheVars, queryVars, product>>

InitDownload ==
    /\ data = <<>>
    /\ call = NoCall
    /\ recall = NoCall
    /\ BatchIdle
    /\ CacheIdle
    /\ ParseIdle
    /\ QueryIdle
    /\ save_dir = {}
    /\ dl = NoDownload

NextDownload == DownloadAndWrite

SpecDownload == InitDownload /\ [][NextDownload]_vars

\* the last call repeated the url of a call that had fetched and stored it
RepeatedAfterSuccess ==
    /\ dl.outcome # "none"
    /\ dl.prev_outcome = "returned"
    /\ dl.prev_url = dl.url

Idempotent ==
    /\ dl.gets = 0
    /\ save_dir = dl.before
    /\ dl.outcome = "returned"
    /\ dl.fname = dl.prev_fname

\* C18: after _download_and_write has fetched and stored a url (a plain .EOF
\* url, or an .EOF.zip url that is extracted), the same call again makes no
\* request, leaves the directory as it is and returns the same path.
C18_DownloadIdempotent == RepeatedAfterSuccess => Idempotent

\* the same for plain .EOF urls alone
C18_PlainEofIdempotent ==
    (RepeatedAfterSuccess /\ Suffix(LastPathPart(dl.url)) = ".EOF") => Idempotent

C18_PlainEofRepeated ==
    /\ RepeatedAfterSuccess
    /\ Suffix(LastPathPart(dl.url)) = ".EOF"
    /\ dl.fname \in save_dir

----------------------------------------------------------------------------
(* parsers.py : Sentinel *)

\* absolute orbit numbers tried: every number up to MaxLowOrbit, and the
\* numbers of the documented products
MaxLowOrbit == 200

AbsOrbits == (0..MaxLowOrbit) \cup {1681, 11036, 21371, 50004, 999999}

\* the six decimal digits of an orbit number, as written in a product name
SixDigits(n) ==
    [i \in 1..6 |-> (n \div (10 ^ (6 - i))) % 10]

\* int() of a string of decimal digits
RECURSIVE ParseInt(_)
ParseInt(digits) ==
    IF digits = <<>> THEN 0
    ELSE 10 * ParseInt(SubSeq(digits, 1, Len(digits) - 1)) + digits[Len(digits)]

\* a product name, cut at the places where FILE_REGEX cuts it: 12 fields
ProductName(mission, orbit) ==
    <<mission, "IW", "SLC", "_", "1", "S", "DV", "20180408T043025",
      "20180408T043053", SixDigits(orbit), "024C9B", "1B70">>

\* names that miss the pattern in one place: an orbit field of five digits,
\* a resolution class outside [FHM_], a missing last field
NearMisses ==
    { [ProductName("S1A", 21371) EXCEPT ![10] = <<2, 1, 3, 7, 1>>],
      [ProductName("S1B", 11036) EXCEPT ![4] = "X"],
      SubSeq(ProductName("S1A", 21371), 1, 11) }

ProductNames ==
    {ProductName(m, n) : m \in {"S1A", "S1B", "S1C", "S2A"}, n \in AbsOrbits}
        \cup {<<"asdf">>, <<"A", "b", "c", "d", "e", "f", "g", "h", "i", "j", "k", "l">>}
        \cup NearMisses

IsDigits(field, n) ==
    /\ field \in Seq(0..9)
    /\ Len(field) = n

RegexMatches_AnyOrbitField(name) ==
    /\ Len(name) = 12
    /\ name[1] \in {"S1A", "S1B"}
    /\ name[4] \in {"F", "H", "M", "_"}

\* re.search(FILE_REGEX, filename) finds a match
RegexMatches(name) ==
    /\ Len(name) = 12
    /\ name[1] \in {"S1A", "S1B"}
    /\ name[2] \in {"IW", "EW", "WV", "S1", "S2", "S3", "S4", "S5", "S6"}
    /\ name[3] \in {"SLC", "GRD", "OCN", "RAW"}
    /\ name[4] \in {"F", "H", "M", "_"}
    /\ name[5] \in {"0", "1", "2"}
    /\ name[6] \in {"S", "A"}
    /\ name[7] \in {"SH", "SV", "DH", "DV", "HH", "HV", "VV", "VH"}
    /\ name[8] \in {"20180408T043025"}
    /\ name[9] \in {"20180408T043053"}
    /\ IsDigits(name[10], 6)
    /\ name[11] \in {"024C9B"}
    /\ name[12] \in {"1B70"}

relative_orbit_TruncatedRemainder(mission, absolute_orbit) ==
    LET Rem(a, b) == IF a >= 0 THEN a % b ELSE 0 - ((0 - a) % b) IN
    IF mission = "S1A" THEN TimeDelta(Rem(absolute_orbit - 73, 175) + 1)
    ELSE IF mission = "S1B" THEN TimeDelta(Rem(absolute_orbit - 27, 175) + 1)
    ELSE None

\* Sentinel.relative_orbit; <<n>> for the integer n, None when no branch returns
relative_orbit(mission, absolute_orbit) ==
    IF mission = "S1A" THEN TimeDelta(((absolute_orbit - 73) % 175) + 1)
    ELSE IF mission = "S1B" THEN TimeDelta(((absolute_orbit - 27) % 175) + 1)
    ELSE None

\* Sentinel(filename), then the mission, absolute_orbit and relative_orbit
\* properties
ParseProduct ==
    /\ product.outcome = "none"
    /\ product' =
          IF ~RegexMatches(product.name)
          THEN [product EXCEPT !.outcome = "ValueError"]
          ELSE LET fields == product.name
                   orbit == ParseInt(fields[10])
               IN  [outcome |-> "parsed", name |-> product.name,
                    fields |-> fields, absolute_orbit |-> <<orbit>>,
                    relative_orbit |-> relative_orbit(fields[1], orbit)]
    /\ UNCHANGED <<selectVars, batchVars, cacheVars, queryVars, downloadVars>>

InitParse ==
    /\ data = <<>>
    /\ call = NoCall
    /\ recall = NoCall
    /\ BatchIdle
    /\ CacheIdle
    /\ DownloadIdle
    /\ QueryIdle
    /\ \E name \in ProductNames : product = [NoProduct EXCEPT !.name = name]

NextParse == ParseProduct

SpecParse == InitParse /\ [][NextParse]_vars

----------------------------------------------------------------------------
(* Relative orbit number *)

\* C19: relative_orbit is ((absolute_orbit - 73) mod 175) + 1 for S1A and
\* ((absolute_orbit - 27) mod 175) + 1 for S1B: an integer of 1..175 that
\* differs from absolute_orbit - offset + 1 by a multiple of 175, also for
\* absolute orbits below the offset; orbit 21371 of S1A gives 124.
C19_RelativeOrbit ==
    (product.outcome = "parsed" /\ product.fields[1] \in {"S1A", "S1B"}) =>
        LET abs == product.absolute_orbit[1]
            offset == IF product.fields[1] = "S1A" THEN 73 ELSE 27
        IN  /\ product.name[10] = SixDigits(abs)
            /\ product.relative_orbit # None
            /\ product.relative_orbit[1] \in 1..175
            /\ \E k \in (0 - 1)..5714 :
                   abs - offset = (175 * k) + (product.relative_orbit[1] - 1)
            /\ (product.fields[1] = "S1A" /\ abs = 21371) =>
                   product.relative_orbit[1] = 124

\* an absolute orbit below the offset of its mission
C19_Witness ==
    /\ product.outcome = "parsed"
    /\ product.fields[1] = "S1A"
    /\ product.absolute_orbit[1] < 73
    /\ product.relative_orbit[1] > 100

C19_WitnessDocumented ==
    /\ product.outcome = "parsed"
    /\ product.fields[1] = "S1A"
    /\ product.absolute_orbit = <<21371>>
    /\ product.relative_orbit = <<124>>

----------------------------------------------------------------------------
(* Missions of the product parser *)

\* C20: the product names of S1A, S1B and S1C are all accepted; the parsed
\* mission is the mission of the name and relative_orbit is an integer of
\* 1..175 (110 for absolute orbit 1681 of S1C).
C20_AllMissionsParsed ==
    \A m \in {"S1A", "S1B", "S1C"}, n \in AbsOrbits :
        (product.outcome # "none" /\ product.name = ProductName(m, n)) =>
            /\ product.outcome = "parsed"
            /\ product.fields[1] = m
            /\ product.relative_orbit # None
            /\ product.relative_orbit[1] \in 1..175
            /\ (m = "S1C" /\ n = 1681) => product.relative_orbit[1] = 110

\* the same for the two missions FILE_REGEX names
C20_S1AandS1BParsed ==
    \A m \in {"S1A", "S1B"}, n \in AbsOrbits :
        (product.outcome # "none" /\ product.name = ProductName(m, n)) =>
            /\ product.outcome = "parsed"
            /\ product.fields[1] = m
            /\ product.relative_orbit # None
            /\ product.relative_orbit[1] \in 1..175

----------------------------------------------------------------------------
(* Malformed product names *)

\* the names that hold the 12 fields of the Sentinel-1 product grammar
GrammarNames ==
    {ProductName(m, n) : m \in {"S1A", "S1B", "S1C"}, n \in AbsOrbits}

----------------------------------------------------------------------------
(* eof/asf_client.py : ASFClient.query_orbit_files_by_dt_range *)

RangeMissions_Both(missions) == <<"S1A", "S1B">>

\* missions = missions or ("S1A", "S1B")
RangeMissions(missions) == IF missions = <<>> THEN <<"S1A", "S1B">> ELSE missions

\* the loop "for mission in missions: orbits.extend(valid_orbits(...))";
\* mission_to_eof_list has the keys S1A and S1B only
RECURSIVE RangeLoop(_, _, _, _, _, _)
RangeLoop(first_dt, last_dt, eof_list, missions, i, orbits) ==
    IF i > Len(missions) THEN [outcome |-> "returned", orbits |-> orbits]
    ELSE IF missions[i] \notin {"S1A", "S1B"}
    THEN [outcome |-> "KeyError", orbits |-> <<>>]
    ELSE LET found == valid_orbits(last_dt, first_dt,
                                   MissionToEofList(eof_list, missions[i]),
                                   None, None)
         IN  IF ~found.ok THEN [outcome |-> "ValidityError", orbits |-> <<>>]
             ELSE RangeLoop(first_dt, last_dt, eof_list, missions, i + 1,
                            orbits \o found.val)

RangeFirstDts == {Seconds(10000)}

RangeLastDts == {Seconds(10000), Seconds(20000)}

RangeMissionArgs == {<<>>, <<"S1A">>, <<"S1B">>, <<"S1A", "S1B">>, <<"S1C">>}

\* windows: around first_dt; ending less than 300 s after first_dt; inside
\* the range; starting less than T_ORBIT + 60 s before last_dt
RangeWindows ==
    { <<Seconds(4015), Seconds(10360)>>,
      <<Seconds(4015), Seconds(10100)>>,
      <<Seconds(12000), Seconds(30000)>>,
      <<Seconds(15000), Seconds(30000)>> }

RangeRecords ==
    { Rec(m, "precise", 1, w[1], w[2]) : m \in Missions, w \in RangeWindows }

QueryOrbitFilesByDtRange ==
    /\ rangeq.outcome = "none"
    /\ LET missions == RangeMissions(rangeq.missions)
           done == RangeLoop(rangeq.first_dt, rangeq.last_dt, data, missions,
                             1, <<>>)
       IN  rangeq' = [rangeq EXCEPT !.outcome = done.outcome,
                                    !.orbits = done.orbits]
    /\ UNCHANGED <<selectVars, batchVars, cacheVars, downloadVars, product,
                   job, dsquery>>

InitRange ==
    /\ data \in SeqsUpTo(RangeRecords, MaxCat)
    /\ call = NoCall
    /\ recall = NoCall
    /\ BatchIdle
    /\ CacheIdle
    /\ DownloadIdle
    /\ ParseIdle
    /\ job = NoJob
    /\ dsquery = NoDsQuery
    /\ \E first_dt \in RangeFirstDts, last_dt \in RangeLastDts,
          missions \in RangeMissionArgs :
          /\ first_dt <= last_dt
          /\ rangeq = [NoRange EXCEPT !.first_dt = first_dt,
                                      !.last_dt = last_dt,
                                      !.missions = missions]

NextRange == QueryOrbitFilesByDtRange

SpecRange == InitRange /\ [][NextRange]_vars

\* the missions asked for; both when the argument is empty
RequestedMissions ==
    IF rangeq.missions = <<>> THEN {"S1A", "S1B"} ELSE Range(rangeq.missions)

\* C22: every record returned by query_orbit_files_by_dt_range(first_dt,
\* last_dt, missions), first_dt <= last_dt, is of a requested mission and
\* overlaps the range: stop_time >= first_dt and start_time <= last_dt.
C22_RangeResultsOverlap ==
    rangeq.outcome = "returned" =>
        \A i \in 1..Len(rangeq.orbits) :
            /\ rangeq.orbits[i].mission \in RequestedMissions
            /\ rangeq.orbits[i].stop_time >= rangeq.first_dt
            /\ rangeq.orbits[i].start_time <= rangeq.last_dt

\* one mission asked for over a proper range, the other mission listed too
C22_Witness ==
    /\ rangeq.outcome = "returned"
    /\ rangeq.first_dt < rangeq.last_dt
    /\ rangeq.missions = <<"S1A">>
    /\ Len(rangeq.orbits) >= 2
    /\ \E r \in Range(data) : r.mission = "S1B"

----------------------------------------------------------------------------
(* Urls of a fully covered batch *)

PassMarginBefore(orbit_type) ==
    IF orbit_type = "precise" THEN T_ORBIT + Seconds(60) ELSE Seconds(60)

\* the file last_valid_orbit chooses for a request from the listing of the
\* orbit type, under the margins of its pass
ChosenFile(orbit_type, q) ==
    last_valid_orbit(q.dt, q.dt,
                     SelectSeq(eof_lists[orbit_type],
                               LAMBDA r : r.mission = q.mission),
                     TimeDelta(PassMarginBefore(orbit_type)), None)

AllCovered ==
    \A i \in 1..Len(requests) :
        CoveredWith(passes[1], requests[i], PassMarginBefore(passes[1]),
                    Seconds(300))

C23_WitnessFallback ==
    /\ client = "asf" /\ outcome = "returned"
    /\ \E a \in answers : a[2][1] = Urls("restituted") /\ passes[1] = "precise"

----------------------------------------------------------------------------
(* eof/download.py : download_eofs *)

\* most dates, and most missions, handed to one download_eofs call
MaxDates == 2

JobDates == {"2018-05-02", "2018-05-03"}

JobMissions == {"S1A", "S1B", "BadMissionStr"}

\* _download_and_write(mission, dt, save_dir): None (here <<>> wrapped as
\* None) when eof_list raises ValueError for the date, else the saved files
TaskResult(mission, dt, listed) ==
    IF mission \notin {<<"S1A">>, <<"S1B">>} \/ dt \notin listed THEN None
    ELSE <<(<<mission[1], dt, ".EOF">>)>>

\* zip(missions, orbit_dts); missions is itertools.repeat(None) when omitted
Tasks(missions, orbit_dts) ==
    IF missions = <<>> THEN [i \in 1..Len(orbit_dts) |-> <<None, orbit_dts[i]>>]
    ELSE [i \in 1..Len(orbit_dts) |-> <<(<<missions[i]>>), orbit_dts[i]>>]

\* "if missions and all(m not in ("S1A", "S1B") for m in missions)"
RejectsMissions(missions) ==
    missions # <<>> /\ \A i \in 1..Len(missions) : missions[i] \notin {"S1A", "S1B"}

\* "for result in result_dt_dict: ... filenames.extend(cur_filenames)"
RECURSIVE Collect(_, _, _, _)
Collect(tasks, listed, i, filenames) ==
    IF i > Len(tasks) THEN [outcome |-> "returned", filenames |-> filenames]
    ELSE LET cur_filenames == TaskResult(tasks[i][1], tasks[i][2], listed) IN
         IF cur_filenames = None
         THEN \* list.extend(None)
              [outcome |-> "TypeError", filenames |-> <<>>]
         ELSE Collect(tasks, listed, i + 1, filenames \o cur_filenames)

DownloadEofs ==
    /\ job.outcome = "none"
    /\ job' =
          IF RejectsMissions(job.missions)
          THEN [job EXCEPT !.outcome = "ValueError"]
          ELSE IF job.missions # <<>> /\ Len(job.missions) # Len(job.orbit_dts)
          THEN [job EXCEPT !.outcome = "ValueError"]
          ELSE LET tasks == Tasks(job.missions, job.orbit_dts)
                   done == Collect(tasks, job.listed, 1, <<>>)
               IN  [job EXCEPT !.outcome = done.outcome,
                               !.started = Len(tasks),
                               !.filenames = done.filenames]
    /\ UNCHANGED <<selectVars, batchVars, cacheVars, downloadVars, product,
                   rangeq, dsquery>>

InitJob ==
    /\ data = <<>>
    /\ call = NoCall
    /\ recall = NoCall
    /\ BatchIdle
    /\ CacheIdle
    /\ DownloadIdle
    /\ ParseIdle
    /\ rangeq = NoRange
    /\ dsquery = NoDsQuery
    /\ \E orbit_dts \in SeqsUpTo(JobDates, MaxDates) \ {<<>>},
          missions \in SeqsUpTo(JobMissions, MaxDates),
          listed \in SUBSET JobDates :
          job = [NoJob EXCEPT !.orbit_dts = orbit_dts, !.missions = missions,
                              !.listed = listed]

NextJob == DownloadEofs

SpecJob == InitJob /\ [][NextJob]_vars

\* C24: download_eofs raises ValueError, before any download task is
\* started, whenever the missions argument holds a value that is not 'S1A'
\* or 'S1B', wherever the value stands and whatever the other values are.
C24_BadMissionRejected ==
    (job.outcome # "none" /\
     \E i \in 1..Len(job.missions) : job.missions[i] \notin {"S1A", "S1B"}) =>
        /\ job.outcome = "ValueError"
        /\ job.started = 0

\* the same when no value of the argument is 'S1A' or 'S1B'
C24_AllBadMissionsRejected ==
    (job.outcome # "none" /\ job.missions # <<>> /\
     \A i \in 1..Len(job.missions) : job.missions[i] \notin {"S1A", "S1B"}) =>
        /\ job.outcome = "ValueError"
        /\ job.started = 0

----------------------------------------------------------------------------
(* Dates without orbit data *)

\* a call with as many missions as dates, all of them S1A or S1B
JobWellFormed ==
    /\ job.outcome # "none"
    /\ Len(job.missions) = Len(job.orbit_dts)
    /\ \A i \in 1..Len(job.missions) : job.missions[i] \in {"S1A", "S1B"}

\* the files of the dates that have a listing, in the order of the dates
RECURSIVE FilesOfListed(_)
FilesOfListed(i) ==
    IF i > Len(job.orbit_dts) THEN <<>>
    ELSE (IF job.orbit_dts[i] \in job.listed
          THEN <<(<<job.missions[i], job.orbit_dts[i], ".EOF">>)>>
          ELSE <<>>) \o FilesOfListed(i + 1)

\* C25: a date for which no orbit data is found, precise and restituted both
\* tried, is skipped: download_eofs does not raise and returns the files
\* saved for the other dates.
C25_MissingDateSkipped ==
    JobWellFormed =>
        /\ job.outcome = "returned"
        /\ job.filenames = FilesOfListed(1)

\* the same when every date has a listing
C25_AllListedReturned ==
    (JobWellFormed /\ \A i \in 1..Len(job.orbit_dts) :
                         job.orbit_dts[i] \in job.listed) =>
        /\ job.outcome = "returned"
        /\ job.filenames = FilesOfListed(1)

C25_TwoDatesReturned ==
    /\ JobWellFormed
    /\ job.outcome = "returned"
    /\ Len(job.filenames) = 2
    /\ job.filenames[1] # job.filenames[2]

----------------------------------------------------------------------------
(* Batches that name the third mission *)

AllMissions == {"S1A", "S1B", "S1C"}

AllMissionRequests ==
    { [dt |-> dt, mission |-> m] : dt \in BatchDts, m \in AllMissions }

InitAllMissions ==
    /\ data = <<>>
    /\ call = NoCall
    /\ recall = NoCall
    /\ CacheIdle
    /\ DownloadIdle
    /\ ParseIdle
    /\ QueryIdle
    /\ \E p \in SeqsUpTo(BatchPrecise, 1), r \in SeqsUpTo(BatchRestituted, 1) :
          eof_lists = [precise |-> p, restituted |-> r]
    /\ requests \in (SeqsUpTo(AllMissionRequests, MaxBatch) \ {<<>>})
    /\ client = "none"
    /\ frames = <<>>
    /\ sh = [i |-> 0, query |-> {}, remaining |-> <<>>]
    /\ outcome = "none"
    /\ urls_out = <<>>
    /\ consulted = {}
    /\ answers = {}
    /\ passes = <<>>
    /\ unresolved = <<>>
    /\ margins = [t0 |-> ClientT0, t1 |-> ClientT1]

NextAllMissions ==
    \/ ASFQueryOrbitByDt
    \/ ASFLookup
    \/ ASFLookupKeyError
    \/ ASFRecurse
    \/ ASFLoopDone
    \/ ASFReturn

SpecAllMissions == InitAllMissions /\ [][NextAllMissions]_vars

HasS1C == \E i \in 1..Len(requests) : requests[i].mission = "S1C"

\* C26: a batch with a request for S1C does not raise: the call returns, the
\* S1C request being resolved or left unresolved, and every other request
\* receives the url it receives without the S1C request.
C26_S1CBatchReturns ==
    (client = "asf" /\ outcome \notin {"none", "running"} /\ HasS1C) =>
        /\ outcome = "returned"
        /\ \A i \in 1..Len(requests) :
               requests[i].mission # "S1C" =>
                   \A u \in Alone(requests[i]) : u \in Range(urls_out)

\* batches of S1A and S1B requests return
C26_OtherBatchesReturn ==
    (client = "asf" /\ outcome \notin {"none", "running"} /\ ~HasS1C) =>
        /\ outcome = "returned"
        /\ \A i \in 1..Len(requests) :
               \A u \in Alone(requests[i]) : u \in Range(urls_out)

C26_OtherBatchResolved ==
    /\ client = "asf" /\ outcome = "returned"
    /\ Len(requests) = 2 /\ Len(urls_out) = 2

----------------------------------------------------------------------------
(* eof/dataspace_client.py : the queries DataspaceClient sends *)

ProductTypes == {"AUX_POEORB", "AUX_RESORB"}

\* what the query service answers for a product type: so many products, or
\* a status raise_for_status turns into an exception
ServiceAnswers ==
    {[status |-> "ok", count |-> n] : n \in 0..2}
        \cup {[status |-> "http_error", count |-> 0]}

Served == [ProductTypes -> ServiceAnswers]

\* _construct_orbit_file_query: the assertion, then the formatted template
ConstructOrbitFileQuery(mission_id, orbit_type, search_start, search_stop) ==
    IF search_start < search_stop
    THEN [outcome |-> "returned", asserted |-> "none",
          query |-> <<[mission_id |-> mission_id, orbit_type |-> orbit_type,
                       start_time |-> search_start, stop_time |-> search_stop]>>]
    ELSE [outcome |-> "AssertionError", asserted |-> "search_start < search_stop",
          query |-> <<>>]

\* query_orbit_file_service: the "value" member of the response
QueryOrbitFileService(query, served) ==
    LET answer == served[query.orbit_type] IN
        IF answer.status = "http_error"
        THEN [outcome |-> "HTTPError", products |-> <<>>]
        ELSE [outcome |-> "returned",
              products |-> [k \in 1..answer.count |->
                              <<query.mission_id, query.orbit_type, k>>]]

\* _QueryOrbitFile.query_orbit
DsQueryOrbit(t0, t1, satellite_id, product_type, served) ==
    IF satellite_id \notin {"S1A", "S1B"}
    THEN [outcome |-> "AssertionError", asserted |-> "satellite_id",
          queries |-> <<>>, products |-> <<>>]
    ELSE LET built == ConstructOrbitFileQuery(satellite_id, product_type, t0, t1) IN
         IF built.outcome # "returned"
         THEN [outcome |-> built.outcome, asserted |-> built.asserted,
               queries |-> <<>>, products |-> <<>>]
         ELSE LET answer == QueryOrbitFileService(built.query[1], served) IN
              [outcome |-> answer.outcome, asserted |-> "none",
               queries |-> built.query, products |-> answer.products]

\* "if len(products) > 1 and expect_only_one_result: append(products[0])
\*  else: extend(products)"
KeptProducts(products, how_many) ==
    IF Len(products) > 1 /\ how_many = 1 THEN <<products[1]>> ELSE products

\* _QueryOrbitFile._search_dt_range: precise first when asked for, then
\* restituted when nothing was found
SearchDtRange(first_dt, last_dt, mission, orbit_type, how_many, served) ==
    LET poe == IF orbit_type = "precise"
               THEN DsQueryOrbit(first_dt, last_dt, mission, "AUX_POEORB", served)
               ELSE [outcome |-> "returned", asserted |-> "none",
                     queries |-> <<>>, products |-> <<>>]
    IN  IF poe.outcome # "returned"
        THEN [outcome |-> poe.outcome, asserted |-> poe.asserted,
              queries |-> poe.queries, results |-> <<>>]
        ELSE IF poe.products # <<>>
        THEN [outcome |-> "returned", asserted |-> "none",
              queries |-> poe.queries,
              results |-> KeptProducts(poe.products, how_many)]
        ELSE LET res == DsQueryOrbit(first_dt, last_dt, mission, "AUX_RESORB", served) IN
             [outcome |-> res.outcome, asserted |-> res.asserted,
              queries |-> poe.queries \o res.queries,
              results |-> IF res.outcome = "returned"
                          THEN KeptProducts(res.products, how_many) ELSE <<>>]

\* the loop of _QueryOneOrbitFileAroundRange.query_orbit_by_dt over
\* zip(orbit_dts, missions), from the i-th pair on
RECURSIVE ByDtLoop(_, _, _, _, _, _, _, _)
ByDtLoop(orbit_dts, missions, orbit_type, t0_margin, t1_margin, served, i, acc) ==
    IF i > Len(orbit_dts) \/ i > Len(missions)
    THEN [outcome |-> "returned", asserted |-> "none",
          queries |-> acc.queries, results |-> acc.results]
    ELSE LET dt == orbit_dts[i]
             first_dt == IF orbit_type = "precise" THEN dt - t0_margin
                         ELSE dt - (T_ORBIT + Seconds(60))
             last_dt == IF orbit_type = "precise" THEN dt + t1_margin
                        ELSE dt + Seconds(60)
             found == SearchDtRange(first_dt, last_dt, missions[i], orbit_type,
                                    1, served)
         IN  IF found.outcome # "returned"
             THEN [outcome |-> found.outcome, asserted |-> found.asserted,
                   queries |-> acc.queries \o found.queries,
                   results |-> <<>>]
             ELSE ByDtLoop(orbit_dts, missions, orbit_type, t0_margin, t1_margin,
                           served, i + 1,
                           [queries |-> acc.queries \o found.queries,
                            results |-> acc.results \o found.results])

\* the loop of _QueryAllOrbitFileWithinRange.query_orbits_by_dt_range
RECURSIVE ByRangeLoop(_, _, _, _, _, _, _)
ByRangeLoop(first_dt, last_dt, missions, orbit_type, served, i, acc) ==
    IF i > Len(missions)
    THEN [outcome |-> "returned", asserted |-> "none",
          queries |-> acc.queries, results |-> acc.results]
    ELSE LET found == SearchDtRange(first_dt, last_dt, missions[i], orbit_type,
                                    0, served)
         IN  IF found.outcome # "returned"
             THEN [outcome |-> found.outcome, asserted |-> found.asserted,
                   queries |-> acc.queries \o found.queries,
                   results |-> <<>>]
             ELSE ByRangeLoop(first_dt, last_dt, missions, orbit_type, served,
                              i + 1,
                              [queries |-> acc.queries \o found.queries,
                               results |-> acc.results \o found.results])

DsQueryOrbitByDt ==
    /\ dsquery.outcome = "none"
    /\ dsquery.entry = "query_orbit_by_dt"
    /\ LET done == ByDtLoop(dsquery.orbit_dts, dsquery.missions,
                            dsquery.orbit_type, dsquery.t0_margin,
                            dsquery.t1_margin, dsquery.served, 1,
                            [queries |-> <<>>, results |-> <<>>])
       IN  dsquery' = [dsquery EXCEPT !.outcome = done.outcome,
                                      !.asserted = done.asserted,
                                      !.queries = done.queries,
                                      !.results = done.results]
    /\ UNCHANGED <<selectVars, batchVars, cacheVars, downloadVars, product,
                   rangeq, job>>

DsQueryOrbitsByDtRange ==
    /\ dsquery.outcome = "none"
    /\ dsquery.entry = "query_orbits_by_dt_range"
    /\ LET missions == IF dsquery.missions = <<>> THEN <<"S1A", "S1B">>
                       ELSE dsquery.missions
           done == ByRangeLoop(dsquery.first_dt, dsquery.last_dt, missions,
                               dsquery.orbit_type, dsquery.served, 1,
                               [queries |-> <<>>, results |-> <<>>])
       IN  dsquery' = [dsquery EXCEPT !.outcome = done.outcome,
                                      !.asserted = done.asserted,
                                      !.queries = done.queries,
                                      !.results = done.results]
    /\ UNCHANGED <<selectVars, batchVars, cacheVars, downloadVars, product,
                   rangeq, job>>

\* margins that are not negative: none, a minute, the defaults Client.T0 and
\* Client.T1
T0Margins == {0, Seconds(60), T_ORBIT + Seconds(60)}

T1Margins == {0, Seconds(60)}

DsPairs == {<<Seconds(50000), m>> : m \in AllMissions}

InitDataspace ==
    /\ data = <<>>
    /\ call = NoCall
    /\ recall = NoCall
    /\ BatchIdle
    /\ CacheIdle
    /\ DownloadIdle
    /\ ParseIdle
    /\ rangeq = NoRange
    /\ job = NoJob
    /\ \E orbit_type \in OrbitTypes, served \in Served :
          \/ \E pairs \in SeqsUpTo(DsPairs, MaxBatch),
                t0_margin \in T0Margins, t1_margin \in T1Margins :
                dsquery = [NoDsQuery EXCEPT
                              !.entry = "query_orbit_by_dt",
                              !.orbit_dts = [i \in 1..Len(pairs) |-> pairs[i][1]],
                              !.missions = [i \in 1..Len(pairs) |-> pairs[i][2]],
                              !.orbit_type = orbit_type,
                              !.t0_margin = t0_margin,
                              !.t1_margin = t1_margin,
                              !.served = served]
          \/ \E first_dt \in RangeFirstDts, last_dt \in RangeLastDts,
                missions \in RangeMissionArgs :
                /\ first_dt <= last_dt
                /\ dsquery = [NoDsQuery EXCEPT
                                 !.entry = "query_orbits_by_dt_range",
                                 !.first_dt = first_dt,
                                 !.last_dt = last_dt,
                                 !.missions = missions,
                                 !.orbit_type = orbit_type,
                                 !.served = served]

NextDataspace == DsQueryOrbitByDt \/ DsQueryOrbitsByDtRange

SpecDataspace == InitDataspace /\ [][NextDataspace]_vars

----------------------------------------------------------------------------
(* The search window of a query *)

\* C30: the assertion search_start < search_stop of
\* _construct_orbit_file_query holds on every call made from
\* query_orbit_by_dt with margins that are not negative (both zero included)
\* and from query_orbits_by_dt_range with first_dt <= last_dt (first_dt =
\* last_dt included).
C30_SearchWindowAsserted ==
    dsquery.asserted # "search_start < search_stop"

\* the same for the calls that are given a window of some length: a precise
\* query with a margin above zero, a restituted query, a range with
\* first_dt < last_dt
GivenSomeWindow ==
    \/ /\ dsquery.entry = "query_orbit_by_dt"
       /\ \/ dsquery.orbit_type = "restituted"
          \/ dsquery.t0_margin + dsquery.t1_margin > 0
    \/ /\ dsquery.entry = "query_orbits_by_dt_range"
       /\ dsquery.first_dt < dsquery.last_dt

C30_NonEmptyWindowAsserted ==
    GivenSomeWindow => C30_SearchWindowAsserted

\* every query that was sent had search_start < search_stop
C30_SentQueriesOrdered ==
    \A i \in 1..Len(dsquery.queries) :
        dsquery.queries[i].start_time < dsquery.queries[i].stop_time

\* a query was sent for a window of some length
C30_QuerySent ==
    /\ dsquery.outcome = "returned" /\ GivenSomeWindow
    /\ dsquery.queries # <<>>

====
